---- MODULE Spec2Model ----
(***************************************************************************)
(* A model of scripts/join_reviews.py: the price and date normalizers, the *)
(* embedding-text builder, the metadata index builder (load_asin_meta) and *)
(* the streaming join (process_reviews).                                   *)
(*                                                                         *)
(* Python values are tagged records: None, S(chars) for a str (a sequence  *)
(* of one-character strings), N(int), B(bool), F(m, e) for the float       *)
(* m / 10^e, L(seq) for a list and Long(q, r) for an int too large for an   *)
(* N; each type has its own payload field.                                 *)
(* A dict is a function from its keys, so `k in d` is k \in DOMAIN d and   *)
(* {} is the empty function <<>>.                                          *)
(***************************************************************************)
EXTENDS Integers, Sequences, FiniteSets, TLC

VARIABLES
  fn, arg, ret,               \* a call of one of the pure functions
  pc, exc,                    \* position of main() and the exception in flight
  max_rows, drop,             \* parameters: row cap, drop_if_missing_meta
  metaF, revF, outF,          \* the three scoped resources
  i, metaSeen, asin_map,      \* load_asin_meta: enumerate index, lines read, index
  reviewSeen, n_in, n_out, bad_asin,  \* process_reviews: lines read, counters
  out, outSrc,                \* the sink's lines, and the input position of each
  stats                       \* what process_reviews returned

fnVars == <<fn, arg, ret>>
runVars == <<pc, exc, max_rows, drop, metaF, revF, outF, i, metaSeen, asin_map,
             reviewSeen, n_in, n_out, bad_asin, out, outSrc, stats>>
vars == <<fn, arg, ret, pc, exc, max_rows, drop, metaF, revF, outF, i, metaSeen,
          asin_map, reviewSeen, n_in, n_out, bad_asin, out, outSrc, stats>>

----------------------------------------------------------------------------
(* Python values *)

None == [t |-> "none"]
S(chars) == [t |-> "str", v |-> chars]
N(n) == [t |-> "int", n |-> n]
B(b) == [t |-> "bool", b |-> b]
F(m, e) == [t |-> "float", m |-> m, e |-> e]
L(xs) == [t |-> "list", xs |-> xs]
\* an int that does not fit 32 bits, as q * 86400 + r with 0 <= r < 86400
Long(q, r) == [t |-> "long", q |-> q, r |-> r]
\* the outcome of a call that raised
Raise(name) == [t |-> "raise", name |-> name]
IsRaise(v) == v.t = "raise"

\* bool(v): the truth value `if v` / `not v` / `v or d` test
Truthy(v) ==
  CASE v.t = "none" -> FALSE
    [] v.t = "str" -> v.v # <<>>
    [] v.t = "int" -> v.n # 0
    [] v.t = "long" -> v.q # 0 \/ v.r # 0
    [] v.t = "bool" -> v.b
    [] v.t = "float" -> v.m # 0
    [] v.t = "list" -> v.xs # <<>>
    [] OTHER -> TRUE

\* d.get(k): the value, or None when the key is absent
Get(d, k) == IF k \in DOMAIN d THEN d[k] ELSE None
\* d.get(k, ''): the value, or the empty str when the key is absent
GetOrEmpty(d, k) == IF k \in DOMAIN d THEN d[k] ELSE S(<<>>)

----------------------------------------------------------------------------
(* str operations *)

Digits == <<"0", "1", "2", "3", "4", "5", "6", "7", "8", "9">>
IsDigit(c) == \E d \in 1..10 : Digits[d] = c
DigitVal(c) == (CHOOSE d \in 1..10 : Digits[d] = c) - 1
IsSpace(c) == c \in {" ", "\t", "\n"}

RECURSIVE lstrip(_)
lstrip(s) == IF s # <<>> /\ IsSpace(Head(s)) THEN lstrip(Tail(s)) ELSE s
RECURSIVE rstrip(_)
rstrip(s) ==
  IF s # <<>> /\ IsSpace(s[Len(s)]) THEN rstrip(SubSeq(s, 1, Len(s) - 1)) ELSE s
\* str.strip()
strip(s) == rstrip(lstrip(s))

\* s.replace(c, "")
remove_char(s, c) == SelectSeq(s, LAMBDA x : x # c)

\* "\n".join(parts)
RECURSIVE join_lines(_)
join_lines(parts) ==
  IF parts = <<>> THEN <<>>
  ELSE IF Len(parts) = 1 THEN parts[1]
  ELSE parts[1] \o <<"\n">> \o join_lines(Tail(parts))

\* the decimal digits of n >= 0
RECURSIVE nat_str(_)
nat_str(n) == IF n < 10 THEN <<Digits[n + 1]>> ELSE nat_str(n \div 10) \o <<Digits[(n % 10) + 1]>>
\* str(n) of an int
int_str(n) == IF n < 0 THEN <<"-">> \o nat_str(-n) ELSE nat_str(n)

\* the digits of n >= 0 zero-padded to width w (strftime's %m and %d)
RECURSIVE pad_str(_, _)
pad_str(n, w) == IF Len(nat_str(n)) >= w THEN nat_str(n) ELSE <<"0">> \o pad_str(n, w - 1)

RECURSIVE pow10(_)
pow10(e) == IF e = 0 THEN 1 ELSE 10 * pow10(e - 1)

\* the value of a run of decimal digits
RECURSIVE digits_val(_)
digits_val(s) ==
  IF s = <<>> THEN 0 ELSE 10 * digits_val(SubSeq(s, 1, Len(s) - 1)) + DigitVal(s[Len(s)])
AllDigits(s) == \A k \in 1..Len(s) : IsDigit(s[k])

\* str(x) of a float m / 10^e: the shortest repr, with ".0" for a whole number
float_str(m, e) ==
  IF e = 0 THEN nat_str(m) \o <<".", "0">>
  ELSE nat_str(m \div pow10(e)) \o <<".">> \o pad_str(m % pow10(e), e)

\* str(v), and what an f-string renders for {v}
str(v) ==
  CASE v.t = "none" -> <<"N", "o", "n", "e">>
    [] v.t = "str" -> v.v
    [] v.t = "int" -> int_str(v.n)
    [] v.t = "bool" -> IF v.b THEN <<"T", "r", "u", "e">> ELSE <<"F", "a", "l", "s", "e">>
    [] v.t = "float" -> float_str(v.m, v.e)
    [] OTHER -> <<"[", "]">>

\* float(num) of a numeral "d+", "d+.d+": the float it denotes, trailing zeros of
\* the fraction dropped so that equal numbers are equal values; ValueError otherwise
RECURSIVE norm_float(_, _)
norm_float(m, e) == IF e > 0 /\ m % 10 = 0 THEN norm_float(m \div 10, e - 1) ELSE F(m, e)
float_of(num) ==
  LET dots == {k \in 1..Len(num) : num[k] = "."}
  IN  IF dots = {} THEN
        IF num # <<>> /\ AllDigits(num) THEN F(digits_val(num), 0) ELSE Raise("ValueError")
      ELSE
        LET d == CHOOSE k \in dots : TRUE
            ip == SubSeq(num, 1, d - 1)
            fp == SubSeq(num, d + 1, Len(num))
        IN  IF Cardinality(dots) = 1 /\ AllDigits(ip) /\ AllDigits(fp) /\ ip \o fp # <<>>
            THEN norm_float(digits_val(ip \o fp), Len(fp))
            ELSE Raise("ValueError")

----------------------------------------------------------------------------
(* parse_price *)

\* the tokens of line 21
GarbageTokens ==
  {<<".">>, <<"-">>, <<"N", "/", "A">>, <<"n", "a">>, <<"N", "A">>, <<>>}

\* the longest run of digits of s from position p (greedy \d+); 0 when none
RECURSIVE digit_run(_, _)
digit_run(s, p) == IF p <= Len(s) /\ IsDigit(s[p]) THEN 1 + digit_run(s, p + 1) ELSE 0

\* The ends at which (\d+(?:\.\d+)?|\.\d+) can match from p, in the order the
\* backtracking matcher tries them: first alternative before second, greedy first.
RECURSIVE shrink(_, _)
shrink(from, to) == IF to < from THEN <<>> ELSE <<to>> \o shrink(from, to - 1)
RECURSIVE alt1_ends(_, _, _)
alt1_ends(s, p, n) ==
  \* \d+ takes n digits (n from the longest run down to 1), then (?:\.\d+)? or nothing
  IF n = 0 THEN <<>>
  ELSE LET q == p + n
           f == IF q <= Len(s) /\ s[q] = "." THEN digit_run(s, q + 1) ELSE 0
       IN  shrink(q + 2, q + f + 1) \o <<q>> \o alt1_ends(s, p, n - 1)
alt2_ends(s, p) ==
  IF p <= Len(s) /\ s[p] = "." THEN shrink(p + 2, p + 1 + digit_run(s, p + 1)) ELSE <<>>
\* (every end is the position after the match)
match_ends(s, p) == alt1_ends(s, p, digit_run(s, p)) \o alt2_ends(s, p)

\* the match of (?<!\d)( ... )(?!\d) anchored at p: its end, or 0
match_at(s, p) ==
  IF p > 1 /\ IsDigit(s[p - 1]) THEN 0
  ELSE LET ok == SelectSeq(match_ends(s, p), LAMBDA q : ~(q <= Len(s) /\ IsDigit(s[q])))
       IN  IF ok = <<>> THEN 0 ELSE Head(ok)

\* re.search: the match at the leftmost position that has one; group(1), or None
RECURSIVE search_from(_, _)
found_or_next(s, p, end) ==
  IF end # 0 THEN S(SubSeq(s, p, end - 1)) ELSE search_from(s, p + 1)
search_from(s, p) == IF p > Len(s) THEN None ELSE found_or_next(s, p, match_at(s, p))
re_search_number(s) == search_from(s, 1)

\* lines 36-39: float(num), None on ValueError
try_float(x) == IF IsRaise(x) THEN None ELSE x
\* lines 29-35: no match is None; ".99" becomes "0.99"
price_of_match(m) ==
  IF m = None THEN None
  ELSE try_float(float_of(IF Head(m.v) = "." THEN <<"0">> \o m.v ELSE m.v))
\* lines 21-28 on the stripped text
price_of_text(s) ==
  IF s \in GarbageTokens THEN None ELSE price_of_match(re_search_number(remove_char(s, ",")))

parse_price(price_str) ==
  IF ~Truthy(price_str) THEN None ELSE price_of_text(strip(str(price_str)))

----------------------------------------------------------------------------
(* parse_date *)

SecondsPerDay == 86400
MINYEAR == 1
MAXYEAR == 9999

IsLeap(y) == (y % 4 = 0 /\ y % 100 # 0) \/ y % 400 = 0
DaysInMonth(y, m) ==
  IF m = 2 THEN (IF IsLeap(y) THEN 29 ELSE 28)
  ELSE IF m \in {4, 6, 9, 11} THEN 30 ELSE 31

\* int(x): ValueError for a str that is no integer literal
int_of(v) ==
  CASE v.t = "int" -> N(v.n)
    [] v.t = "long" -> v
    [] v.t = "bool" -> N(IF v.b THEN 1 ELSE 0)
    [] v.t = "float" -> N(v.m \div pow10(v.e))
    [] v.t = "str" ->
         LET s == strip(v.v)
             neg == s # <<>> /\ Head(s) = "-"
             ds == IF s # <<>> /\ Head(s) \in {"-", "+"} THEN Tail(s) ELSE s
         IN  IF ds # <<>> /\ AllDigits(ds)
             THEN N(IF neg THEN -digits_val(ds) ELSE digits_val(ds))
             ELSE Raise("ValueError")
    [] OTHER -> Raise("TypeError")

\* the proleptic Gregorian date of day number z (days since 1970-01-01)
civil_from_days(z) ==
  LET z2 == z + 719468
      era == z2 \div 146097
      doe == z2 - era * 146097
      yoe == (doe - doe \div 1460 + doe \div 36524 - doe \div 146096) \div 365
      doy == doe - (365 * yoe + yoe \div 4 - yoe \div 100)
      mp == (5 * doy + 2) \div 153
      d == doy - (153 * mp + 2) \div 5 + 1
      m == IF mp < 10 THEN mp + 3 ELSE mp - 9
      y == yoe + era * 400 + (IF m <= 2 THEN 1 ELSE 0)
  IN  [t |-> "date", y |-> y, m |-> m, d |-> d]

\* datetime.utcfromtimestamp(n): ValueError when the year is out of range
year_checked(c) == IF c.y < MINYEAR \/ c.y > MAXYEAR THEN Raise("ValueError") ELSE c
utcfromtimestamp(n) ==
  year_checked(civil_from_days(IF n.t = "long" THEN n.q ELSE n.n \div SecondsPerDay))

\* strftime("%Y-%m-%d"): the C library pads %m and %d to two digits and writes %Y
\* without padding
strftime(c) == S(nat_str(c.y) \o <<"-">> \o pad_str(c.m, 2) \o <<"-">> \o pad_str(c.d, 2))

\* c at position p of s, "" past the end
At(s, p) == IF p >= 1 /\ p <= Len(s) THEN s[p] ELSE ""
InRange(c, lo, hi) == IsDigit(c) /\ DigitVal(c) >= lo /\ DigitVal(c) <= hi

\* One directive's matches at p as <<value, next position>>, in the order of the
\* alternatives of its pattern.
\* %m: 1[0-2]|0[1-9]|[1-9]
month_matches(s, p) ==
  (IF At(s, p) = "1" /\ InRange(At(s, p + 1), 0, 2)
     THEN << <<10 + DigitVal(At(s, p + 1)), p + 2>> >> ELSE <<>>)
  \o (IF At(s, p) = "0" /\ InRange(At(s, p + 1), 1, 9)
     THEN << <<DigitVal(At(s, p + 1)), p + 2>> >> ELSE <<>>)
  \o (IF InRange(At(s, p), 1, 9) THEN << <<DigitVal(At(s, p)), p + 1>> >> ELSE <<>>)
\* %d: 3[0-1]|[1-2]\d|0[1-9]|[1-9]| [1-9]
day_matches(s, p) ==
  (IF At(s, p) = "3" /\ InRange(At(s, p + 1), 0, 1)
     THEN << <<30 + DigitVal(At(s, p + 1)), p + 2>> >> ELSE <<>>)
  \o (IF InRange(At(s, p), 1, 2) /\ IsDigit(At(s, p + 1))
     THEN << <<10 * DigitVal(At(s, p)) + DigitVal(At(s, p + 1)), p + 2>> >> ELSE <<>>)
  \o (IF At(s, p) = "0" /\ InRange(At(s, p + 1), 1, 9)
     THEN << <<DigitVal(At(s, p + 1)), p + 2>> >> ELSE <<>>)
  \o (IF InRange(At(s, p), 1, 9) THEN << <<DigitVal(At(s, p)), p + 1>> >> ELSE <<>>)
  \o (IF At(s, p) = " " /\ InRange(At(s, p + 1), 1, 9)
     THEN << <<DigitVal(At(s, p + 1)), p + 2>> >> ELSE <<>>)
\* %Y: \d\d\d\d
year_matches(s, p) ==
  IF \A k \in 0..3 : IsDigit(At(s, p + k))
  THEN << <<digits_val(SubSeq(s, p, p + 3)), p + 4>> >> ELSE <<>>
\* \s+ (a blank of the format): the next positions, longest run first
RECURSIVE space_run(_, _)
space_run(s, p) == IF IsSpace(At(s, p)) THEN 1 + space_run(s, p + 1) ELSE 0
space_matches(s, p) == shrink(p + 1, p + space_run(s, p))
comma_matches(s, p) == IF At(s, p) = "," THEN <<p + 1>> ELSE <<>>

\* the concatenation of f[x] over the elements x of xs, in order
Elems(xs) == {xs[k] : k \in 1..Len(xs)}
RECURSIVE flat_map(_, _)
flat_map(f, xs) == IF xs = <<>> THEN <<>> ELSE f[Head(xs)] \o flat_map(f, Tail(xs))

\* re.match of the pattern of "%m %d, %Y" at the start of s: every way to match as
\* [m, d, y, end], in the matcher's order; the matcher returns the first
date_matches(s) ==
  flat_map([mm \in Elems(month_matches(s, 1)) |->
    flat_map([w1 \in Elems(space_matches(s, mm[2])) |->
      flat_map([dd \in Elems(day_matches(s, w1)) |->
        flat_map([c \in Elems(comma_matches(s, dd[2])) |->
          flat_map([w2 \in Elems(space_matches(s, c)) |->
            flat_map([yy \in Elems(year_matches(s, w2)) |->
                       << [m |-> mm[1], d |-> dd[1], y |-> yy[1], end |-> yy[2]] >>],
                     year_matches(s, w2))],
            space_matches(s, c))],
          comma_matches(s, dd[2]))],
        day_matches(s, w1))],
      space_matches(s, mm[2]))],
    month_matches(s, 1))

\* datetime.strptime(text, "%m %d, %Y"): TypeError for a non-str, ValueError when the
\* text does not match, when data remains after the match, or for no such date
date_checked(f, len) ==
  IF f.end # len + 1 THEN Raise("ValueError")
  ELSE IF f.y < MINYEAR \/ f.d > DaysInMonth(f.y, f.m) THEN Raise("ValueError")
  ELSE [t |-> "date", y |-> f.y, m |-> f.m, d |-> f.d]
first_match(found, len) ==
  IF found = <<>> THEN Raise("ValueError") ELSE date_checked(Head(found), len)
strptime(text) ==
  IF text.t # "str" THEN Raise("TypeError")
  ELSE first_match(date_matches(text.v), Len(text.v))

\* line 43: the date of a timestamp; what int() or utcfromtimestamp raised propagates
format_date(c) == IF IsRaise(c) THEN c ELSE strftime(c)
date_of_timestamp(n) == IF IsRaise(n) THEN n ELSE format_date(utcfromtimestamp(n))
\* lines 46-49: the date of the text, None on any exception
date_or_none(r) == IF IsRaise(r) THEN None ELSE strftime(r)

parse_date(review_time_str, unix_ts) ==
  IF Truthy(unix_ts) THEN date_of_timestamp(int_of(unix_ts))
  ELSE IF ~Truthy(review_time_str) THEN None
  ELSE date_or_none(strptime(review_time_str))

----------------------------------------------------------------------------
(* make_embed_text *)

LitAsin == <<"A", "S", "I", "N", " ">>
LitProduct == <<"P", "r", "o", "d", "u", "c", "t", ":", " ">>
LitBrandOpen == <<" ", "(", "B", "r", "a", "n", "d", ":", " ">>
LitClose == <<")">>
LitCategory == <<"C", "a", "t", "e", "g", "o", "r", "y", ":", " ">>
LitToysGames == <<"T", "o", "y", "s", " ", "&", " ", "G", "a", "m", "e", "s">>
LitRating == <<"R", "a", "t", "i", "n", "g", ":", " ">>
LitStars == <<" ", "s", "t", "a", "r", "s">>
LitVerified == <<" ", "(", "V", "e", "r", "i", "f", "i", "e", "d", " ", "P", "u", "r", "c", "h", "a", "s", "e", ")">>
LitSummary == <<"R", "e", "v", "i", "e", "w", " ", "S", "u", "m", "m", "a", "r", "y", ":", " ">>
LitFullReview == <<"F", "u", "l", "l", " ", "R", "e", "v", "i", "e", "w", ":", " ">>

\* x or d
Or(x, d) == IF Truthy(x) THEN x ELSE d

\* cats[0]: the first element of a list, the first character of a str
first_item(cats) ==
  CASE cats.t = "list" -> cats.xs[1]
    [] cats.t = "str" -> S(<<cats.v[1]>>)
    [] OTHER -> Raise("TypeError")

\* (x or "").strip(): AttributeError when x is truthy and no str
or_empty_strip(x) ==
  LET y == Or(x, S(<<>>))
  IN  IF y.t = "str" THEN S(strip(y.v)) ELSE Raise("AttributeError")

\* lines 84-86: cat_line
category_of(cats, main_cat) == IF Truthy(cats) THEN first_item(cats) ELSE main_cat
default_category(picked) == IF IsRaise(picked) THEN picked ELSE Or(picked, S(LitToysGames))
category_line(prod) ==
  default_category(category_of(Or(Get(prod, "category"), L(<<>>)),
                               Or(Get(prod, "main_cat"), S(<<>>))))

\* lines 92-98: the list `parts` as L(<<characters of each part>>); stars is int(rating)
parts_list(title, brand, cat_line, rating, stars, verified, summary, body) ==
  IF IsRaise(stars) THEN stars
  ELSE L(<< LitProduct \o str(title)
              \o (IF Truthy(brand) THEN LitBrandOpen \o str(brand) \o LitClose ELSE <<>>),
            LitCategory \o str(cat_line),
            IF rating # None
              THEN LitRating \o int_str(stars.n) \o LitStars
                     \o (IF Truthy(verified) THEN LitVerified ELSE <<>>)
              ELSE <<>>,
            IF summary.v # <<>> THEN LitSummary \o summary.v ELSE <<>>,
            LitFullReview \o body.v >>)

\* lines 82-98 in the order they are evaluated: what is raised first propagates
parts_or_raise(title, brand, cat_line, rating, verified, summary, body) ==
  IF IsRaise(cat_line) THEN cat_line
  ELSE IF IsRaise(summary) THEN summary
  ELSE IF IsRaise(body) THEN body
  ELSE parts_list(title, brand, cat_line, rating,
                  IF rating = None THEN N(0) ELSE int_of(rating),
                  verified, summary, body)

embed_parts(prod, review) ==
  parts_or_raise(Or(Get(prod, "title"), S(LitAsin \o str(GetOrEmpty(review, "asin")))),
                 Get(prod, "brand"),
                 category_line(prod),
                 Get(review, "overall"),
                 Get(review, "verified"),
                 or_empty_strip(Get(review, "summary")),
                 or_empty_strip(Get(review, "reviewText")))

\* "\n".join(p for p in parts if p), with or without the final .strip()
joined(parts) == IF IsRaise(parts) THEN parts ELSE S(join_lines(SelectSeq(parts.xs, LAMBDA p : p # <<>>)))
stripped(text) == IF IsRaise(text) THEN text ELSE S(strip(text.v))

\* a variant without the final .strip() of line 99
make_embed_text_unstripped(prod, review) == joined(embed_parts(prod, review))

make_embed_text(prod, review) == stripped(joined(embed_parts(prod, review)))

----------------------------------------------------------------------------
(* load_asin_meta *)

\* the default keep_fields of line 52
KeepFields == {"title", "brand", "main_cat", "category", "price", "rank"}

\* An input line: blank, not JSON, or a JSON object
BlankLine == [k |-> "blank"]
BadLine == [k |-> "bad"]
Row(obj) == [k |-> "row", obj |-> obj]

\* rec of lines 64-70: the kept fields present in obj, the price normalized and a
\* str category wrapped into a list
meta_record(obj) ==
  [f \in KeepFields \cap DOMAIN obj |->
     IF f = "price" THEN parse_price(obj[f])
     ELSE IF f = "category" /\ obj[f].t = "str" THEN L(<<obj[f]>>)
     ELSE obj[f]]

\* a variant that keeps the first record of a key
store_first(m, key, rec) ==
  IF key \in DOMAIN m THEN m
  ELSE [x \in DOMAIN m \cup {key} |-> IF x = key THEN rec ELSE m[x]]

\* asin_map[asin] = rec
store(m, key, rec) == [x \in DOMAIN m \cup {key} |-> IF x = key THEN rec ELSE m[x]]

\* One iteration of the loop of lines 55-74 on line number idx: the index after it,
\* the exception it raised (None: none), and whether it left the loop by break.
meta_iter(line, idx, amap, cap) ==
  IF line.k = "blank" THEN [asin_map |-> amap, exc |-> None, brk |-> FALSE]
  ELSE IF line.k = "bad"
    THEN [asin_map |-> amap, exc |-> Raise("JSONDecodeError"), brk |-> FALSE]
  ELSE LET asin == Get(line.obj, "asin")
       IN  IF ~Truthy(asin) THEN [asin_map |-> amap, exc |-> None, brk |-> FALSE]
           ELSE [asin_map |-> store(amap, asin.v, meta_record(line.obj)),
                 exc |-> None,
                 brk |-> Truthy(cap) /\ idx >= cap.n]

\* a variant of the with statement's exit that closes only on a normal exit
WithExitNoCleanup(res, raised) == IF raised THEN res ELSE "closed"

\* leaving a with block, normally or by an exception: the resource is closed
WithExit(res, raised) == "closed"

----------------------------------------------------------------------------
(* process_reviews *)

LitUnderscore == <<"_">>

\* `not prod`: no entry, or an entry that is an empty dict
not_prod(prod) == prod = None \/ prod = <<>>

\* the record of lines 119-138
join_record(asin, r, prod, text, date) ==
  [id |-> S(asin.v \o LitUnderscore \o str(GetOrEmpty(r, "reviewerID"))
            \o LitUnderscore \o str(GetOrEmpty(r, "unixReviewTime"))),
   asin |-> asin,
   embedding_text |-> text,
   meta |-> [product_title |-> Get(prod, "title"),
             brand |-> Get(prod, "brand"),
             main_cat |-> Get(prod, "main_cat"),
             categories |-> Get(prod, "category"),
             price |-> Get(prod, "price"),
             also_buy |-> Get(prod, "also_buy"),
             also_view |-> Get(prod, "also_view"),
             review_time |-> date,
             rating |-> Get(r, "overall"),
             verified |-> Get(r, "verified"),
             review_summary |-> Get(r, "summary"),
             review_text |-> Get(r, "reviewText")]]

\* a variant that counts a row without asin as missing metadata
on_missing_asin_counted(st) == [st EXCEPT !.bad_asin = @ + 1]

\* lines 111-112: a row without asin is skipped
on_missing_asin(st) == st

\* lines 118-140 for a row that is joined: the record is written, unless building the
\* text or the date raised
emit(st1, pos, asin, r, prod, text, date) ==
  IF IsRaise(text) THEN [st1 EXCEPT !.exc = text]
  ELSE IF IsRaise(date) THEN [st1 EXCEPT !.exc = date]
  ELSE [st1 EXCEPT !.out = Append(@, join_record(asin, r, prod, text, date)),
                   !.outSrc = Append(@, pos),
                   !.n_out = @ + 1]

\* lines 113-117 for a row with an identifier: dropped, or joined with its entry or {}
join_row(st1, pos, asin, r, got, dropFlag) ==
  IF not_prod(got) /\ dropFlag THEN [st1 EXCEPT !.bad_asin = @ + 1]
  ELSE emit(st1, pos, asin, r, IF not_prod(got) THEN <<>> ELSE got,
            make_embed_text(IF not_prod(got) THEN <<>> ELSE got, r),
            parse_date(Get(r, "reviewTime"), Get(r, "unixReviewTime")))

\* lines 110-113 for a parsed row
review_row(st1, pos, asin, r, amap, dropFlag) ==
  IF ~Truthy(asin) THEN on_missing_asin(st1)
  ELSE join_row(st1, pos, asin, r,
                IF asin.v \in DOMAIN amap THEN amap[asin.v] ELSE None, dropFlag)

\* lines 108-109 for a line that is not blank
counted_line(st1, line, pos, amap, dropFlag) ==
  IF line.k = "bad" THEN [st1 EXCEPT !.exc = Raise("JSONDecodeError")]
  ELSE review_row(st1, pos, Get(line.obj, "asin"), line.obj, amap, dropFlag)

\* One iteration of the loop of lines 106-140 on the line at position pos, from the
\* locals st = [n_in, n_out, bad_asin, out, outSrc, exc]
review_iter(line, pos, amap, dropFlag, st) ==
  IF line.k = "blank" THEN st
  ELSE counted_line([st EXCEPT !.n_in = @ + 1], line, pos, amap, dropFlag)

----------------------------------------------------------------------------
(* Inputs *)

\* the longest metadata and review streams, the largest row cap
MaxMetaLines == 2
MaxReviewLines == 2
MaxCap == 2
\* the longest price string drawn from PriceAlphabet, the longest blank of a date text
MaxPriceLen == 3
MaxBlank == 2

BoundedSeq(A, n) == UNION {[1..k -> A] : k \in 0..n}

\* metadata lines: a blank line, a line that is no JSON, rows without and with an
\* empty identifier, a row with no kept field, rows with kept and other fields
MetaLines ==
  { BlankLine, BadLine,
    Row([title |-> S(<<"T", "o", "y">>)]),
    Row([asin |-> S(<<>>), title |-> S(<<"T", "o", "y">>)]),
    Row([asin |-> S(<<"A">>)]),
    Row([asin |-> S(<<"A">>), title |-> S(<<"C", "a", "r">>), brand |-> S(<<"A", "c", "m", "e">>),
         price |-> S(<<"$", "9", ".", "9", "9">>), rank |-> N(7)]),
    Row([asin |-> S(<<"B">>), category |-> S(<<"T", "o", "y", "s">>), price |-> S(<<"N", "/", "A">>),
         also_buy |-> L(<<S(<<"A">>)>>)]) }

\* review lines: blank, no JSON, a row without identifier, full and sparse rows, null
\* fields, an identifier no metadata row has, a timestamp and a rating that are no
\* numbers
ReviewLines ==
  { BlankLine, BadLine,
    Row([reviewerID |-> S(<<"R", "1">>), overall |-> N(3)]),
    Row([asin |-> S(<<"A">>), reviewerID |-> S(<<"R", "1">>), unixReviewTime |-> N(1243296000),
         overall |-> N(5), verified |-> B(TRUE), summary |-> S(<<"G", "r", "e", "a", "t">>),
         reviewText |-> S(<<"L", "o", "v", "e", "d", " ", "i", "t">>)]),
    Row([asin |-> S(<<"A">>), reviewerID |-> None, unixReviewTime |-> None,
         reviewTime |-> S(<<"0", "5", " ", "2", "6", ",", " ", "2", "0", "0", "9">>)]),
    Row([asin |-> S(<<"B">>)]),
    Row([asin |-> S(<<"C">>), unixReviewTime |-> N(0), reviewTime |-> S(<<"5", " ", "6", ",", " ", "2", "0", "0", "9">>)]),
    Row([asin |-> S(<<"B">>), unixReviewTime |-> S(<<"a", "b", "c">>)]),
    Row([asin |-> S(<<"A">>), overall |-> S(<<"f", "i", "v", "e">>)]) }

----------------------------------------------------------------------------
(* main(): load_asin_meta, then process_reviews *)

Pending == [t |-> "pending"]

Init ==
  /\ fn = "none" /\ arg = <<>> /\ ret = Pending
  /\ pc = "start" /\ exc = None
  /\ max_rows \in {None} \cup {N(c) : c \in 1..MaxCap}
  /\ drop \in BOOLEAN
  /\ metaF = "unopened" /\ revF = "unopened" /\ outF = "unopened"
  /\ i = 0 /\ metaSeen = <<>> /\ asin_map = <<>>
  /\ reviewSeen = <<>> /\ n_in = 0 /\ n_out = 0 /\ bad_asin = 0
  /\ out = <<>> /\ outSrc = <<>>
  /\ stats = None

\* line 54: the metadata source is opened
OpenMeta ==
  /\ pc = "start"
  /\ metaF' = "open"
  /\ pc' = "meta_loop"
  /\ UNCHANGED <<fnVars, exc, max_rows, drop, revF, outF, i, metaSeen, asin_map,
                 reviewSeen, n_in, n_out, bad_asin, out, outSrc, stats>>

\* line 54: open raises; nothing was opened
OpenMetaFail ==
  /\ pc = "start"
  /\ exc' = Raise("OSError")
  /\ pc' = "aborted"
  /\ UNCHANGED <<fnVars, max_rows, drop, metaF, revF, outF, i, metaSeen, asin_map,
                 reviewSeen, n_in, n_out, bad_asin, out, outSrc, stats>>

\* lines 55-74: the next line of the metadata source; an exception or a break
\* leaves the with block
MetaLine ==
  /\ pc = "meta_loop"
  /\ Len(metaSeen) < MaxMetaLines
  /\ \E line \in MetaLines :
     \E r \in {meta_iter(line, i + 1, asin_map, max_rows)} :
           /\ metaSeen' = Append(metaSeen, line)
           /\ i' = i + 1
           /\ asin_map' = r.asin_map
           /\ exc' = r.exc
           /\ IF r.exc # None
                THEN metaF' = WithExit(metaF, TRUE) /\ pc' = "aborted"
                ELSE IF r.brk
                  THEN metaF' = WithExit(metaF, FALSE) /\ pc' = "meta_ret"
                  ELSE metaF' = metaF /\ pc' = pc
  /\ UNCHANGED <<fnVars, max_rows, drop, revF, outF,
                 reviewSeen, n_in, n_out, bad_asin, out, outSrc, stats>>

\* the metadata source is exhausted: the loop and the with block end
MetaEOF ==
  /\ pc = "meta_loop"
  /\ metaF' = WithExit(metaF, FALSE)
  /\ pc' = "meta_ret"
  /\ UNCHANGED <<fnVars, exc, max_rows, drop, revF, outF, i, metaSeen, asin_map,
                 reviewSeen, n_in, n_out, bad_asin, out, outSrc, stats>>

\* line 75: return asin_map; the locals of load_asin_meta are gone
LoadReturn ==
  /\ pc = "meta_ret"
  /\ i' = 0 /\ metaSeen' = <<>>
  /\ pc' = "rev_start"
  /\ UNCHANGED <<fnVars, exc, max_rows, drop, metaF, revF, outF, asin_map,
                 reviewSeen, n_in, n_out, bad_asin, out, outSrc, stats>>

\* line 105: the review source and the sink are opened
OpenReviews ==
  /\ pc = "rev_start"
  /\ revF' = "open" /\ outF' = "open"
  /\ pc' = "rev_loop"
  /\ UNCHANGED <<fnVars, exc, max_rows, drop, metaF, i, metaSeen, asin_map,
                 reviewSeen, n_in, n_out, bad_asin, out, outSrc, stats>>

\* line 105: opening the review source raises
OpenReviewsFail ==
  /\ pc = "rev_start"
  /\ exc' = Raise("OSError")
  /\ pc' = "aborted"
  /\ UNCHANGED <<fnVars, max_rows, drop, metaF, revF, outF, i, metaSeen, asin_map,
                 reviewSeen, n_in, n_out, bad_asin, out, outSrc, stats>>

\* line 105: the review source is open and opening the sink raises; the with
\* statement exits the review source
OpenOutFail ==
  /\ pc = "rev_start"
  /\ revF' = WithExit("open", TRUE)
  /\ exc' = Raise("OSError")
  /\ pc' = "aborted"
  /\ UNCHANGED <<fnVars, max_rows, drop, metaF, outF, i, metaSeen, asin_map,
                 reviewSeen, n_in, n_out, bad_asin, out, outSrc, stats>>

\* lines 106-140: the next line of the review source
ReviewLine ==
  /\ pc = "rev_loop"
  /\ Len(reviewSeen) < MaxReviewLines
  /\ \E line \in ReviewLines :
     \E r \in {review_iter(line, Len(reviewSeen) + 1, asin_map, drop,
                            [n_in |-> n_in, n_out |-> n_out, bad_asin |-> bad_asin,
                             out |-> out, outSrc |-> outSrc, exc |-> None])} :
           /\ reviewSeen' = Append(reviewSeen, line)
           /\ n_in' = r.n_in /\ n_out' = r.n_out /\ bad_asin' = r.bad_asin
           /\ out' = r.out /\ outSrc' = r.outSrc
           /\ exc' = r.exc
           /\ IF r.exc # None
                THEN /\ revF' = WithExit(revF, TRUE) /\ outF' = WithExit(outF, TRUE)
                     /\ pc' = "aborted"
                ELSE revF' = revF /\ outF' = outF /\ pc' = pc
  /\ UNCHANGED <<fnVars, max_rows, drop, metaF, i, metaSeen, asin_map, stats>>

\* the review source is exhausted: the loop and the with block end
ReviewEOF ==
  /\ pc = "rev_loop"
  /\ revF' = WithExit(revF, FALSE) /\ outF' = WithExit(outF, FALSE)
  /\ pc' = "rev_ret"
  /\ UNCHANGED <<fnVars, exc, max_rows, drop, metaF, i, metaSeen, asin_map,
                 reviewSeen, n_in, n_out, bad_asin, out, outSrc, stats>>

\* line 141: the counters are returned to main, which prints them
ProcessReturn ==
  /\ pc = "rev_ret"
  /\ stats' = [read |-> n_in, written |-> n_out, missing_meta |-> bad_asin]
  /\ pc' = "done"
  /\ UNCHANGED <<fnVars, exc, max_rows, drop, metaF, revF, outF, i, metaSeen, asin_map,
                 reviewSeen, n_in, n_out, bad_asin, out, outSrc>>

Next ==
  \/ OpenMeta \/ OpenMetaFail \/ MetaLine \/ MetaEOF \/ LoadReturn
  \/ OpenReviews \/ OpenReviewsFail \/ OpenOutFail
  \/ ReviewLine \/ ReviewEOF \/ ProcessReturn

Spec == Init /\ [][Next]_vars

----------------------------------------------------------------------------
(* Calls of the pure functions on enumerated arguments *)

\* prices: None, numbers, the garbage tokens, the examples of the documentation and
\* every string over PriceAlphabet of at most MaxPriceLen characters
PriceAlphabet == {"0", "1", "9", ".", ",", "$", " "}
PriceInputs ==
  {None, N(0), N(5), F(0, 0), F(1999, 2)}
  \cup {S(g) : g \in GarbageTokens}
  \cup {S(<<"$", "1", "9", ".", "9", "9">>), S(<<"1", ",", "2", "3", "4", ".", "5", "0">>), S(<<".", "9", "9">>), S(<<"a", "b", "c">>), S(<<"n", "/", "a">>), S(<<" ", "-", " ">>), S(<<"-", "5">>), S(<<"1", ".", "2", ".", "3">>)}
  \cup {S(s) : s \in BoundedSeq(PriceAlphabet, MaxPriceLen)}

\* date texts: month, blank, day, comma, blank, year, with blanks of 0..MaxBlank spaces
\* and an optional trailing space; and some texts of another shape
RECURSIVE Blank(_)
Blank(n) == IF n = 0 THEN <<>> ELSE <<" ">> \o Blank(n - 1)
MonthTokens == {<<"5">>, <<"0", "5">>, <<"2">>, <<"1", "3">>, <<"0", "0">>}
DayTokens == {<<"6">>, <<"2", "9">>, <<"3", "0">>, <<"3", "1">>, <<"9", "9">>}
YearTokens == {<<"2", "0", "0", "8">>, <<"2", "0", "0", "9">>, <<"0", "0", "9", "9">>, <<"0", "0", "0", "0">>, <<"0", "9">>}
DateTexts ==
  {None, S(<<>>), S(<<"2", "0", "0", "9", "-", "0", "5", "-", "2", "6">>), S(<<"0", "5", "\t", "2", "6", ",", "\n", "2", "0", "0", "9">>), S(<<"0", "5", " ", "2", "6", ",", " ", "2", "0", "0", "9", "1">>)}
  \cup {S(mt \o Blank(a) \o dt \o <<",">> \o Blank(b) \o yt \o Blank(c)) :
          mt \in MonthTokens, dt \in DayTokens, yt \in YearTokens,
          a \in 0..MaxBlank, b \in 0..MaxBlank, c \in 0..1}
\* timestamps: None, 0, the first and last second of some days (day 14390 is
\* 2009-05-26, day 11016 is 2000-02-29), and the last second of year 9999 and the
\* first of year 10000 (day 2932897)
DaySamples == {-1, 0, 11016, 14390}
Timestamps ==
  {None, N(0)} \cup {N(d * SecondsPerDay + s) : d \in DaySamples, s \in {0, SecondsPerDay - 1}}
  \cup {Long(2932896, SecondsPerDay - 1), Long(2932897, 0)}

\* dicts with optional keys: a field equal to Absent is left out
Absent == [t |-> "absent"]
Dict(f) == [k \in {x \in DOMAIN f : f[x] # Absent} |-> f[k]]
ProdInputs ==
  {Dict(f) : f \in [title : {Absent, S(<<"T", "o", "y", " ", "C", "a", "r">>)},
                    brand : {Absent, S(<<"A", "c", "m", "e">>)},
                    category : {Absent, L(<<>>), L(<<S(<<"C", "a", "r", "s">>)>>)},
                    main_cat : {Absent, S(<<"T", "o", "y", "s">>)}]}
ReviewInputs ==
  {Dict(f) : f \in [asin : {S(<<"B", "1">>)},
                    overall : {Absent, N(5), F(45, 1)},
                    verified : {Absent, B(TRUE), B(FALSE)},
                    summary : {Absent, S(<<>>), S(<<"G", "r", "e", "a", "t">>)},
                    reviewText : {Absent, None, S(<<>>), S(<<" ", " ">>), S(<<"L", "o", "v", "e", "d", " ", "i", "t">>), S(<<"a", "\n", "b">>)}]}

FnCalls ==
  {<<"parse_price", <<p>> >> : p \in PriceInputs}
  \cup {<<"parse_date", <<x, u>> >> : x \in DateTexts, u \in Timestamps}
  \cup {<<"make_embed_text", <<p, r>> >> : p \in ProdInputs, r \in ReviewInputs}

InitFn ==
  /\ \E c \in FnCalls : fn = c[1] /\ arg = c[2]
  /\ ret = Pending
  /\ pc = "idle" /\ exc = None
  /\ max_rows = None /\ drop = TRUE
  /\ metaF = "unopened" /\ revF = "unopened" /\ outF = "unopened"
  /\ i = 0 /\ metaSeen = <<>> /\ asin_map = <<>>
  /\ reviewSeen = <<>> /\ n_in = 0 /\ n_out = 0 /\ bad_asin = 0
  /\ out = <<>> /\ outSrc = <<>>
  /\ stats = None

CallParsePrice ==
  /\ fn = "parse_price" /\ ret = Pending
  /\ ret' = parse_price(arg[1])
  /\ UNCHANGED <<fn, arg, runVars>>

CallParseDate ==
  /\ fn = "parse_date" /\ ret = Pending
  /\ ret' = parse_date(arg[1], arg[2])
  /\ UNCHANGED <<fn, arg, runVars>>

CallMakeEmbedText ==
  /\ fn = "make_embed_text" /\ ret = Pending
  /\ ret' = make_embed_text(arg[1], arg[2])
  /\ UNCHANGED <<fn, arg, runVars>>

NextFn == CallParsePrice \/ CallParseDate \/ CallMakeEmbedText

SpecFn == InitFn /\ [][NextFn]_vars

----------------------------------------------------------------------------
(* Properties of process_reviews *)

Positions(lines) == [p \in 1..Len(lines) |-> p]
HasAsin(line) == line.k = "row" /\ Truthy(Get(line.obj, "asin"))
\* process_reviews is in its loop or has left it normally
Joining == pc \in {"rev_loop", "rev_ret", "done"}

\* a review row the join must write: it has a product identifier and, under the drop
\* policy, the identifier is a key of the index
Eligible(line) ==
  HasAsin(line) /\ (drop => line.obj.asin.v \in DOMAIN asin_map)

\* C1: the records written are, in input order, exactly one per review row that has
\* a non-empty product identifier and, when drop_if_missing_meta is true, whose
\* identifier is a key of the metadata index.
C1_JoinCompleteness ==
  Joining =>
    /\ outSrc = SelectSeq(Positions(reviewSeen), LAMBDA p : Eligible(reviewSeen[p]))
    /\ Len(out) = Len(outSrc)
    /\ \A j \in 1..Len(out) : out[j].asin = reviewSeen[outSrc[j]].obj.asin

\* C2: written + missing_meta <= read after every step; while the join runs and at
\* its return, read counts the non-blank lines, written the lines of the sink, and
\* read - written - missing_meta is the number of rows without a product identifier,
\* so equality holds exactly when every row carried one.
C2_Counters ==
  /\ n_out + bad_asin <= n_in
  /\ Joining =>
       /\ n_in = Cardinality({p \in 1..Len(reviewSeen) : reviewSeen[p].k # "blank"})
       /\ n_out = Len(out)
       /\ n_in - (n_out + bad_asin)
            = Cardinality({p \in 1..Len(reviewSeen) :
                             reviewSeen[p].k = "row" /\ ~HasAsin(reviewSeen[p])})
  /\ pc = "done" => stats = [read |-> n_in, written |-> n_out, missing_meta |-> bad_asin]

\* process_reviews has returned after a row without identifier and a written row
C2_Witness ==
  /\ pc = "rev_ret" /\ n_in = 2 /\ n_out = 1 /\ bad_asin = 0
  /\ \E p \in 1..Len(reviewSeen) : reviewSeen[p].k = "row" /\ ~HasAsin(reviewSeen[p])

\* C3: when every line of both streams is well-formed JSON no field value aborts the
\* run: the only exceptions that end it are a malformed line and a failed open.
C3_FieldValuesNeverAbort ==
  pc = "aborted" => exc \in {Raise("JSONDecodeError"), Raise("OSError")}

\* C4: on every exit of load_asin_meta and of process_reviews, by return or by an
\* exception, no resource is left open: a resource is open only inside the loop of
\* the function that opened it.
C4_ResourcesClosed ==
  /\ pc # "meta_loop" => metaF \in {"unopened", "closed"}
  /\ pc # "rev_loop" => revF \in {"unopened", "closed"} /\ outF \in {"unopened", "closed"}
  /\ pc \in {"meta_ret", "rev_start", "rev_loop", "rev_ret", "done"} => metaF = "closed"
  /\ pc \in {"rev_ret", "done"} => revF = "closed" /\ outF = "closed"

\* a malformed review line aborted the run after a record was written
C4_Witness ==
  /\ pc = "aborted" /\ exc = Raise("JSONDecodeError")
  /\ Len(out) >= 1 /\ metaF = "closed" /\ revF = "closed" /\ outF = "closed"

\* the position of the last row of lines with identifier key
LastRowOf(lines, key) ==
  CHOOSE p \in 1..Len(lines) :
    /\ HasAsin(lines[p]) /\ lines[p].obj.asin.v = key
    /\ \A q \in (p + 1)..Len(lines) : ~(HasAsin(lines[q]) /\ lines[q].obj.asin.v = key)
\* the index that lines define: one entry per non-empty identifier, from its last row
IndexOf(lines) ==
  [key \in {lines[p].obj.asin.v : p \in {q \in 1..Len(lines) : HasAsin(lines[q])}} |->
     meta_record(lines[LastRowOf(lines, key)].obj)]

Loading == pc \in {"meta_loop", "meta_ret"}

\* C5: with a row cap max_rows = N the index is built from the first N lines only: no
\* line at a position greater than N contributes an entry.
C5_RowCap ==
  (Loading /\ max_rows # None) =>
    asin_map = IndexOf(SubSeq(metaSeen, 1, IF Len(metaSeen) < max_rows.n
                                             THEN Len(metaSeen) ELSE max_rows.n))

\* the empty string for a key that is absent or null, else the value as text
OrEmptyText(r, key) == IF Get(r, key) = None THEN <<>> ELSE str(r[key])

\* C8: the id of every written record is productId_reviewerId_unixReviewTime with the
\* empty string for a reviewerId or unixReviewTime that is absent or null, and its
\* asin is the review's product identifier.
C8_RecordId ==
  Joining =>
    \A j \in 1..Len(out) :
      /\ out[j].id = S(reviewSeen[outSrc[j]].obj.asin.v
                       \o <<"_">> \o OrEmptyText(reviewSeen[outSrc[j]].obj, "reviewerID")
                       \o <<"_">> \o OrEmptyText(reviewSeen[outSrc[j]].obj, "unixReviewTime"))
      /\ out[j].asin = reviewSeen[outSrc[j]].obj.asin

\* C9: without a row cap, after any rows the keys of the index are the non-empty
\* identifiers of the rows read and each entry is the projection of the last row with
\* that identifier: kept fields only, the price a float or None, the category no str.
C9_LastWriteWins ==
  (Loading /\ max_rows = None) =>
    /\ asin_map = IndexOf(metaSeen)
    /\ <<>> \notin DOMAIN asin_map
    /\ \A key \in DOMAIN asin_map :
         /\ DOMAIN asin_map[key] \subseteq KeepFields
         /\ "price" \in DOMAIN asin_map[key] => asin_map[key].price.t \in {"float", "none"}
         /\ "category" \in DOMAIN asin_map[key] => asin_map[key].category.t # "str"

\* two rows with the same identifier and different fields were read, then a row
\* without identifier; the entry is the second row's
C9_Witness ==
  /\ pc = "meta_ret" /\ max_rows = None /\ Len(metaSeen) = MaxMetaLines
  /\ \E p, q \in 1..Len(metaSeen) :
       /\ p < q /\ HasAsin(metaSeen[p]) /\ HasAsin(metaSeen[q])
       /\ metaSeen[p].obj.asin = metaSeen[q].obj.asin
       /\ meta_record(metaSeen[p].obj) # meta_record(metaSeen[q].obj)
       /\ asin_map[metaSeen[q].obj.asin.v] = meta_record(metaSeen[q].obj)

----------------------------------------------------------------------------
(* Properties of the pure functions *)

Returned(f) == fn = f /\ ret # Pending

\* the day number of a date, counted from 1970-01-01
LeapsBefore(y) == (y - 1) \div 4 - (y - 1) \div 100 + (y - 1) \div 400
RECURSIVE DaysBeforeMonth(_, _)
DaysBeforeMonth(y, m) ==
  IF m = 1 THEN 0 ELSE DaysBeforeMonth(y, m - 1) + DaysInMonth(y, m - 1)
EpochDay(y, m, d) ==
  365 * (y - 1970) + LeapsBefore(y) - LeapsBefore(1970)
    + DaysBeforeMonth(y, m) + d - 1

IsCalendarDate(y, m, d) == y >= 1 /\ m \in 1..12 /\ d >= 1 /\ d <= DaysInMonth(y, m)

\* v is the text "YYYY-MM-DD"; the date it writes
IsIsoText(v) ==
  /\ v.t = "str" /\ Len(v.v) = 10 /\ v.v[5] = "-" /\ v.v[8] = "-"
  /\ \A k \in {1, 2, 3, 4, 6, 7, 9, 10} : IsDigit(v.v[k])
IsoDate(v) ==
  [y |-> digits_val(SubSeq(v.v, 1, 4)), m |-> digits_val(SubSeq(v.v, 6, 7)),
   d |-> digits_val(SubSeq(v.v, 9, 10))]

\* timestamp ts lies within day number day
InDay(ts, day) ==
  IF ts.t = "long" THEN ts.q = day
  ELSE day * SecondsPerDay <= ts.n /\ ts.n < (day + 1) * SecondsPerDay
\* v is the UTC calendar date of timestamp ts
IsDateOfTimestamp(v, ts) ==
  /\ IsIsoText(v)
  /\ IsCalendarDate(IsoDate(v).y, IsoDate(v).m, IsoDate(v).d)
  /\ InDay(ts, EpochDay(IsoDate(v).y, IsoDate(v).m, IsoDate(v).d))

\* s is written as "MM DD, YYYY": two digits, a space, two digits, a comma, a space
\* and four digits
IsStrictDateText(s) ==
  /\ Len(s) = 11 /\ s[3] = " " /\ s[6] = "," /\ s[7] = " "
  /\ \A k \in {1, 2, 4, 5, 8, 9, 10, 11} : IsDigit(s[k])
\* the date such a text writes
WrittenDate(s) ==
  [y |-> digits_val(SubSeq(s, 8, 11)), m |-> digits_val(SubSeq(s, 1, 2)),
   d |-> digits_val(SubSeq(s, 4, 5))]
\* the text is well formed and in range
IsValidDateText(text) ==
  /\ text.t = "str" /\ IsStrictDateText(text.v)
  /\ IsCalendarDate(WrittenDate(text.v).y, WrittenDate(text.v).m, WrittenDate(text.v).d)

\* C6: parse_date resolves the date by strict precedence: a timestamp that is present
\* and non-zero gives its UTC calendar date whatever the text; when the timestamp is
\* absent, None or 0 the text alone decides, parsed strictly as "MM DD, YYYY": its
\* date as YYYY-MM-DD when it is well formed and in range, None (never an error)
\* otherwise.
C6_StrictFormat ==
  Returned("parse_date") =>
    IF arg[2] # None /\ arg[2] # N(0)
      THEN IsDateOfTimestamp(ret, arg[2])
      ELSE IF IsValidDateText(arg[1])
        THEN IsIsoText(ret) /\ IsoDate(ret) = WrittenDate(arg[1].v)
        ELSE ret = None

\* x is a numeral: digits, digits "." digits, or "." digits
IsNumeral(x) ==
  /\ x # <<>>
  /\ \A k \in 1..Len(x) : IsDigit(x[k]) \/ x[k] = "."
  /\ Cardinality({k \in 1..Len(x) : x[k] = "."}) <= 1
  /\ IsDigit(x[Len(x)])
\* the numeric substrings of s that no further digit adjoins
NumericSubstrings(s) ==
  { ab \in (1..Len(s)) \X (1..Len(s)) :
      /\ ab[1] <= ab[2]
      /\ IsNumeral(SubSeq(s, ab[1], ab[2]))
      /\ ~(ab[1] > 1 /\ IsDigit(s[ab[1] - 1]))
      /\ ~(ab[2] < Len(s) /\ IsDigit(s[ab[2] + 1])) }
\* the first of them, taken as long as it goes
FirstNumeric(s) ==
  LET subs == NumericSubstrings(s)
      first == CHOOSE ab \in subs :
                 \A cd \in subs : ab[1] < cd[1] \/ (ab[1] = cd[1] /\ ab[2] >= cd[2])
  IN  SubSeq(s, first[1], first[2])
\* float v is the number numeral x denotes
Denotes(x, v) ==
  /\ v.t = "float"
  /\ v.m * pow10(Cardinality({k \in 1..Len(x) : \E j \in 1..(k - 1) : x[j] = "."}))
       = digits_val(remove_char(x, ".")) * pow10(v.e)
\* the text parse_price scans: the trimmed string form without commas
PriceText(p) == remove_char(strip(str(p)), ",")

\* C7: parse_price never raises; it returns None exactly when the input is None or
\* empty, its trimmed string form is a garbage token, or the form without commas has
\* no numeric substring; else it returns the number the first such substring denotes,
\* so that a price of zero is reported as 0, not None.
C7_PriceContract ==
  Returned("parse_price") =>
    /\ ~IsRaise(ret)
    /\ ret = None <=>
         \/ arg[1] = None \/ arg[1] = S(<<>>)
         \/ strip(str(arg[1])) \in GarbageTokens
         \/ NumericSubstrings(PriceText(arg[1])) = {}
    /\ ret # None => Denotes(FirstNumeric(PriceText(arg[1])), ret)

LitFullReviewBare == <<"F", "u", "l", "l", " ", "R", "e", "v", "i", "e", "w", ":">>
LineBreaks(s) == Cardinality({k \in 1..Len(s) : s[k] = "\n"})
LastLine(s) ==
  SubSeq(s, (IF LineBreaks(s) = 0 THEN 0
             ELSE CHOOSE k \in 1..Len(s) :
                    s[k] = "\n" /\ \A j \in (k + 1)..Len(s) : s[j] # "\n") + 1, Len(s))
EndsWith(s, e) == Len(e) <= Len(s) /\ SubSeq(s, Len(s) - Len(e) + 1, Len(s)) = e
\* the trimmed review body of a review; "" when it is absent or None
BodyOf(review) == strip(str(Or(Get(review, "reviewText"), S(<<>>))))
SummaryOf(review) == strip(str(Or(Get(review, "summary"), S(<<>>))))
\* only the components with content are in the text: product, category, the rating
\* if present, the summary if non-empty, and the lines of the review body
OnlyFilledComponents(text, review) ==
  LineBreaks(text) + 1
    = 2 + (IF Get(review, "overall") # None THEN 1 ELSE 0)
        + (IF SummaryOf(review) # <<>> THEN 1 ELSE 0)
        + LineBreaks(BodyOf(review)) + 1

\* C10 as stated: the last line of the text is "Full Review: " followed by the body,
\* and is the literal "Full Review: " with its trailing space when the body is empty;
\* components without content are omitted.
C10_TrailingSpaceLine ==
  Returned("make_embed_text") =>
    /\ ret.t = "str"
    /\ LastLine(ret.v) = LitFullReview \o BodyOf(arg[2])
    /\ OnlyFilledComponents(ret.v, arg[2])

\* C10 as amended: the text ends with the line-initial component "Full Review: "
\* followed by the trimmed body; when the body is empty the last line is
\* "Full Review:" without the trailing space, which the final trim removes;
\* components without content are omitted.
C10_FullReviewLast ==
  Returned("make_embed_text") =>
    /\ ret.t = "str"
    /\ IF BodyOf(arg[2]) = <<>>
         THEN LastLine(ret.v) = LitFullReviewBare
         ELSE EndsWith(ret.v, <<"\n">> \o LitFullReview \o BodyOf(arg[2]))
    /\ OnlyFilledComponents(ret.v, arg[2])

\* a review without body, rating and summary was rendered
C10_Witness ==
  /\ Returned("make_embed_text")
  /\ DOMAIN arg[2] = {"asin"}
  /\ LastLine(ret.v) = LitFullReviewBare
  /\ LineBreaks(ret.v) = 2

====
